---- MODULE Spec2Model ----
(***************************************************************************)
(* A model of sql_categolizer.py: SQLParser turns one SQL SELECT statement *)
(* into a signature (from_tables, join_tables, where_conditions, group_by, *)
(* order_by); main() does so for every line of standard input.             *)
(*                                                                         *)
(* Text is a TLA+ string; Ch(s, i) is its i-th character.  The regular     *)
(* expressions of the source are operators that scan the text the way      *)
(* Python's re does (leftmost match, greedy, non-overlapping).  The        *)
(* third-party tokenizer sqlparse is modelled by Lex and Group, for the    *)
(* SQL the statements below use: names, dotted names, aliases, numbers,    *)
(* quoted strings, comparisons, parentheses, commas and keywords; no       *)
(* function calls, arithmetic, signed or exponent numbers, or comments.    *)
(***************************************************************************)
EXTENDS Naturals, Sequences, FiniteSets, TLC

VARIABLES
  input,             \* what is fed on standard input: the statements, as they were built
  stdin,             \* sys.stdin: the lines not read yet
  line,              \* main: line
  pc,                \* where main() and parse_sql() are
  tokens,            \* parse_sql: parsed.tokens
  from_tables,       \* parse_sql: from_tables
  join_tables,       \* parse_sql: join_tables
  where_conditions,  \* parse_sql: where_conditions
  subqueries,        \* process_subqueries: the texts re.sub handed to replace_subquery
  group_by,          \* parse_sql: group_by
  order_by,          \* parse_sql: order_by
  out,               \* what main() has printed: one signature per statement
  condition_text,    \* abstract_conditions: the argument of a direct call
  abstracted         \* abstract_conditions: the results of the call and of the calls on
                     \* its own result

vars == <<input, stdin, line, pc, tokens, from_tables, join_tables, where_conditions,
          subqueries, group_by, order_by, out, condition_text,
          abstracted>>

----------------------------------------------------------------------------
(* Characters *)

\* a function as a table of its values, and a sequence as a tuple of its elements:
\* the same value, computed once
Table(f) == f @@ <<>>
Tuple(f) == SubSeq(f, 1, Len(f))
\* e, once the value v is known: v is computed before e, not in the course of it
After(v, e) == IF v = v THEN e ELSE e
\* [F(x) for x in s]
Map(F(_), s) == After(s, Tuple([k \in 1..Len(s) |-> F(s[k])]))

Ch(s, i) == IF i >= 1 /\ i <= Len(s) THEN SubSeq(s, i, i) ELSE ""

Lowers == "abcdefghijklmnopqrstuvwxyz"
Uppers == "ABCDEFGHIJKLMNOPQRSTUVWXYZ"
Digits == "0123456789"
\* The characters of the statements below, in code point order.
Ascii == " \"'()*,.0123456789:<=>ABCDEFGHIJKLMNOPQRSTUVWXYZ_abcdefghijklmnopqrstuvwxyz|"

CharsOf(s) == {SubSeq(s, i, i) : i \in 1..Len(s)}
LowerSet == CharsOf(Lowers)
UpperSet == CharsOf(Uppers)
DigitSet == CharsOf(Digits)
\* \w of Python's re
WordSet == LowerSet \cup UpperSet \cup DigitSet \cup {"_"}
UpperMap == [c \in LowerSet |-> LET i == CHOOSE j \in 1..26 : SubSeq(Lowers, j, j) = c
                                IN  SubSeq(Uppers, i, i)]
OrdMap == [c \in CharsOf(Ascii) |-> CHOOSE j \in 1..Len(Ascii) : SubSeq(Ascii, j, j) = c]

IsDigit(c) == c \in DigitSet
IsWord(c) == c \in WordSet
\* \s of Python's re
IsSpace(c) == c = " "
UpperCh(c) == IF c \in LowerSet THEN UpperMap[c] ELSE c

\* the least and the greatest number of a set of numbers, 0 if the set is empty
Least(S) == IF S = {} THEN 0 ELSE CHOOSE i \in S : \A j \in S : i <= j
Greatest(S) == IF S = {} THEN 0 ELSE CHOOSE i \in S : \A j \in S : i >= j

\* The positions a left-to-right scan visits: 1, next[1], next[next[1]], ... up to the
\* position next leaves as it is.  J is next composed with itself a number of times,
\* and O the positions reached in fewer steps than that number.
RECURSIVE Orbit(_, _)
Orbit(J, O) ==
  IF \A i \in O : J[i] \in O THEN O
  ELSE Orbit(Table([i \in DOMAIN J |-> J[J[i]]]), O \cup {J[i] : i \in O})

\* The positions a scan of a text or of a token list stops at, where en[i] is the last
\* index of what starts at i (less than i: nothing starts at i, and the scan goes on
\* at i + 1)
Stops(en) ==
  Orbit(Table([i \in 1..(Len(en) + 1) |->
                 IF i > Len(en) THEN i ELSE IF en[i] >= i THEN en[i] + 1 ELSE i + 1]),
        {1}) \ {Len(en) + 1}

\* the elements of a set of numbers in ascending order
Sorted(S) ==
  LET Ranked(rank) ==
        After(rank, Tuple([k \in 1..Cardinality(S) |-> CHOOSE i \in S : rank[i] = k - 1]))
  IN  IF S = {} THEN <<>> ELSE Ranked(Table([i \in S |-> Cardinality({j \in S : j < i})]))

\* the least (greatest) i in lo..hi with s[i] in the set C (not in it), 0 if there is
\* none; the character after the end of s is ""
FirstIn(s, C, lo, hi) ==
  IF \E i \in lo..hi : Ch(s, i) \in C
    THEN CHOOSE i \in lo..hi : Ch(s, i) \in C /\ \A j \in lo..(i - 1) : Ch(s, j) \notin C
    ELSE 0
FirstNotIn(s, C, lo, hi) ==
  IF \E i \in lo..hi : Ch(s, i) \notin C
    THEN CHOOSE i \in lo..hi : Ch(s, i) \notin C /\ \A j \in lo..(i - 1) : Ch(s, j) \in C
    ELSE 0
LastNotIn(s, C, lo, hi) ==
  IF \E i \in lo..hi : Ch(s, i) \notin C
    THEN CHOOSE i \in lo..hi : Ch(s, i) \notin C /\ \A j \in (i + 1)..hi : Ch(s, j) \in C
    ELSE 0

RECURSIVE JoinWith(_, _, _, _)
JoinWith(sep, texts, lo, hi) ==
  IF lo > hi THEN ""
  ELSE IF lo = hi THEN texts[lo]
  ELSE JoinWith(sep, texts, lo, (lo + hi) \div 2) \o sep
       \o JoinWith(sep, texts, (lo + hi) \div 2 + 1, hi)
\* sep.join(texts)
Join(sep, texts) == After(texts, JoinWith(sep, texts, 1, Len(texts)))

RECURSIVE UpperRange(_, _, _)
UpperRange(s, lo, hi) ==
  IF lo > hi THEN ""
  ELSE IF lo = hi THEN UpperCh(Ch(s, lo))
  ELSE UpperRange(s, lo, (lo + hi) \div 2) \o UpperRange(s, (lo + hi) \div 2 + 1, hi)
\* str.upper()
Upper(s) == UpperRange(s, 1, Len(s))

\* s[i:i+len(w)] == w
StartsAt(s, i, w) == i >= 1 /\ i + Len(w) - 1 <= Len(s) /\ SubSeq(s, i, i + Len(w) - 1) = w
\* the same, ignoring case (re.IGNORECASE; w is upper case)
StartsAtI(s, i, w) ==
  i >= 1 /\ i + Len(w) - 1 <= Len(s) /\ Upper(SubSeq(s, i, i + Len(w) - 1)) = w
\* w in s
Contains(s, w) == \E i \in 1..Len(s) : StartsAt(s, i, w)
\* \b between s[i-1] and s[i]
WordBoundary(s, i) == IsWord(Ch(s, i - 1)) # IsWord(Ch(s, i))

\* the last index of the run of digits (word characters, spaces) that starts at i
\* (i - 1: the run is empty)
DigitRunEnd(s, i) == FirstNotIn(s, DigitSet, i, Len(s) + 1) - 1
WordRunEnd(s, i) == FirstNotIn(s, WordSet, i, Len(s) + 1) - 1
SpaceRunEnd(s, i) == FirstNotIn(s, {" "}, i, Len(s) + 1) - 1
\* the first index >= i holding character c (0: none)
IndexOf(s, c, i) == FirstIn(s, {c}, i, Len(s))

----------------------------------------------------------------------------
(* abstract_conditions: the regular expressions.  Each Match* gives the   *)
(* index of the last character of the match that starts at i, 0 if none.  *)

\* \b\d+(?:\.\d+)?\b
MatchNumber(s, i) ==
  IF ~(IsDigit(Ch(s, i)) /\ WordBoundary(s, i)) THEN 0
  ELSE LET j == DigitRunEnd(s, i)
           k == DigitRunEnd(s, j + 2)
       IN  IF Ch(s, j + 1) = "." /\ k >= j + 2 /\ WordBoundary(s, k + 1) THEN k
           ELSE IF WordBoundary(s, j + 1) THEN j
           ELSE 0

\* '[^']*'
MatchSingleQuoted(s, i) == IF Ch(s, i) = "'" THEN IndexOf(s, "'", i + 1) ELSE 0
\* "[^"]*"
MatchDoubleQuoted(s, i) == IF Ch(s, i) = "\"" THEN IndexOf(s, "\"", i + 1) ELSE 0

\* \bTRUE\b|\bFALSE\b
MatchBool(s, i) ==
  IF StartsAtI(s, i, "TRUE") /\ WordBoundary(s, i) /\ WordBoundary(s, i + 4) THEN i + 3
  ELSE IF StartsAtI(s, i, "FALSE") /\ WordBoundary(s, i) /\ WordBoundary(s, i + 5) THEN i + 4
  ELSE 0

\* \bNULL\b
MatchNull(s, i) ==
  IF StartsAtI(s, i, "NULL") /\ WordBoundary(s, i) /\ WordBoundary(s, i + 4) THEN i + 3 ELSE 0

\* \s+
MatchSpaces(s, i) == IF IsSpace(Ch(s, i)) THEN SpaceRunEnd(s, i) ELSE 0

\* (?:[^()]+|\([^()]*\))*\)  from i: the index of the closing parenthesis (0: no match)
RECURSIVE InListEnd(_, _)
InListEnd(s, i) ==
  LET p == FirstIn(s, {"(", ")"}, i, Len(s))
      q == FirstIn(s, {"(", ")"}, p + 1, Len(s))
  IN  IF p = 0 THEN 0
      ELSE IF Ch(s, p) = ")" THEN p
      ELSE IF q = 0 \/ Ch(s, q) = "(" THEN 0
      ELSE InListEnd(s, q + 1)

\* where the content of IN\s*\( ... \) starts, for a match at i (0: no match)
InContentStart(s, i) ==
  IF ~StartsAtI(s, i, "IN") THEN 0
  ELSE IF Ch(s, SpaceRunEnd(s, i + 2) + 1) = "(" THEN SpaceRunEnd(s, i + 2) + 2 ELSE 0

\* IN\s*\(((?:[^()]+|\([^()]*\))*)\)
MatchIn(s, i) ==
  LET c == InContentStart(s, i) IN IF c = 0 THEN 0 ELSE InListEnd(s, c)

\* The indices where the matches of a pattern start, as re.sub and re.finditer find them:
\* the text is scanned from left to right, and a match is followed by the next match
\* that starts after its end.  en[i] is the end of the match that starts at i.
MatchStarts(en) == Sorted({i \in Stops(en) : en[i] > 0})

\* re.sub(pattern, repl, s): Match is the pattern, Repl gives the replacement of a
\* matched text
ReSub(Match(_, _), Repl(_), s) ==
  LET Joined(en, st, pieces) ==
        After(pieces,
              Join("", pieces)
              \o SubSeq(s, (IF st = <<>> THEN 0 ELSE en[st[Len(st)]]) + 1, Len(s)))
      Replaced(en, st) ==
        After(st,
              Joined(en, st,
                     Tuple([k \in 1..Len(st) |->
                              SubSeq(s, (IF k = 1 THEN 0 ELSE en[st[k - 1]]) + 1, st[k] - 1)
                              \o Repl(SubSeq(s, st[k], en[st[k]]))])))
      Matched(en) == After(en, Replaced(en, MatchStarts(en)))
  IN  After(s, Matched(Tuple([i \in 1..Len(s) |-> Match(s, i)])))

\* str.strip(chars): the characters of the string chars are removed at both ends
Strip(s, chars) ==
  IF FirstNotIn(s, CharsOf(chars), 1, Len(s)) = 0 THEN ""
  ELSE SubSeq(s, FirstNotIn(s, CharsOf(chars), 1, Len(s)),
              LastNotIn(s, CharsOf(chars), 1, Len(s)))

RECURSIVE replace_in_clause(_)
replace_in_clause(match) ==
  LET Replacement(in_content) ==
        IF Contains(Upper(in_content), "SELECT")
          THEN "IN (" \o ReSub(MatchIn, replace_in_clause, in_content) \o ")"
        ELSE IF Contains(in_content, "'") \/ Contains(in_content, "\"")
          THEN "IN ('X')"
        ELSE "IN (9)"
  IN  Replacement(SubSeq(match, InContentStart(match, 1), Len(match) - 1))

\* abstract_conditions(conditions): each re.sub works on the result of the one before it
abstract_conditions(conditions) ==
  LET Nine(m) == "9"
      SingleX(m) == "'X'"
      DoubleX(m) == "\"X\""
      Bool(m) == "B"
      Null(m) == "NULL"
      Space(m) == " "
  IN  Strip(ReSub(MatchSpaces, Space,
        ReSub(MatchIn, replace_in_clause,
          ReSub(MatchNull, Null,
            ReSub(MatchBool, Bool,
              ReSub(MatchDoubleQuoted, DoubleX,
                ReSub(MatchSingleQuoted, SingleX,
                  ReSub(MatchNumber, Nine, conditions))))))), " ")

----------------------------------------------------------------------------
(* process_subqueries and extract_subquery_info: the text part *)

\* \(SELECT[^)]+\)
MatchSubquery(s, i) ==
  LET e == IndexOf(s, ")", i + 7)
  IN  IF StartsAtI(s, i, "(SELECT") /\ e > i + 7 THEN e ELSE 0

----------------------------------------------------------------------------
(* sqlparse.parse: the lexer.  A token is a record: cls is the class of a  *)
(* group ("" for a leaf), tt the token type of a leaf ("None" for a group),*)
(* v the text (str(token)) and sub the tokens of a group.                  *)

Leaf(tt, v) == [cls |-> "", tt |-> tt, v |-> v, sub |-> <<>>]
Grp(cls, toks, v) == [cls |-> cls, tt |-> "None", v |-> v, sub |-> toks]

\* sqlparse.keywords: the entries for the words the statements use
KeywordWords == {"WHERE", "ON", "AND", "OR", "NOT", "NULL", "TRUE", "FALSE", "BETWEEN",
                 "LIMIT", "HAVING", "UNION", "EXCEPT", "INTO", "RETURNING", "IS", "BY",
                 "GROUP", "ORDER", "LEFT", "RIGHT", "FULL", "INNER", "OUTER", "CROSS",
                 "NATURAL", "EXISTS", "DISTINCT"}
OrderWords == {"ASC", "DESC"}
BuiltinWords == {"DATE", "INT", "TEXT"}
\* (CASE|IN|VALUES|USING|FROM|AS)\b
EarlyKeywords == {"CASE", "IN", "VALUES", "USING", "FROM", "AS"}

is_keyword(value) ==
  LET val == Upper(value)
  IN  IF val = "SELECT" THEN "DML"
      ELSE IF val \in KeywordWords \/ val \in EarlyKeywords THEN "Keyword"
      ELSE IF val \in OrderWords THEN "Order"
      ELSE IF val \in BuiltinWords THEN "Builtin"
      ELSE "Name"

\* the word that starts at i, in upper case ("" for i = 0)
WordAt(s, i) == IF i = 0 THEN "" ELSE Upper(SubSeq(s, i, WordRunEnd(s, i)))
\* the start of the word after the word at i and the spaces that follow it (0: no spaces,
\* or i = 0)
NextWord(s, i) ==
  IF i = 0 \/ SpaceRunEnd(s, WordRunEnd(s, i) + 1) = WordRunEnd(s, i) THEN 0
  ELSE SpaceRunEnd(s, WordRunEnd(s, i) + 1) + 1

\* ((LEFT\s+|RIGHT\s+|FULL\s+)?(INNER\s+|OUTER\s+|STRAIGHT\s+)?|(CROSS\s+|NATURAL\s+)?)?JOIN\b
\* matched at i: the index of the N of JOIN (0: no match)
JoinEnd(s, i) ==
  LET Matched(i2, i3, w1, w2, w3) ==
        IF w1 = "JOIN" THEN WordRunEnd(s, i)
        ELSE IF w1 \in {"LEFT", "RIGHT", "FULL", "INNER", "OUTER", "STRAIGHT", "CROSS",
                        "NATURAL"}
                /\ w2 = "JOIN" THEN WordRunEnd(s, i2)
        ELSE IF w1 \in {"LEFT", "RIGHT", "FULL"} /\ w2 \in {"INNER", "OUTER", "STRAIGHT"}
                /\ w3 = "JOIN" THEN WordRunEnd(s, i3)
        ELSE 0
      Words(i2, i3) == Matched(i2, i3, WordAt(s, i), WordAt(s, i2), WordAt(s, i3))
      Second(i2) == Words(i2, NextWord(s, i2))
  IN  Second(NextWord(s, i))

\* GROUP\s+BY\b and ORDER\s+BY\b matched at i: the index of the Y (0: no match)
TwoWordEnd(s, i) ==
  LET Matched(i2) ==
        IF WordAt(s, i) \in {"GROUP", "ORDER"} /\ i2 > 0 /\ WordAt(s, i2) = "BY"
          THEN WordRunEnd(s, i2) ELSE 0
  IN  Matched(NextWord(s, i))

\* '(''|[^'])*' from the opening quote at i: the index of the closing quote (0: none)
RECURSIVE StringEnd(_, _, _)
StringEnd(s, i, q) ==
  LET j == IndexOf(s, q, i + 1)
      r == FirstNotIn(s, {q}, j, Len(s) + 1) - 1
  IN  IF j = 0 THEN 0
      ELSE IF (r - j + 1) % 2 = 1 THEN r
      ELSE StringEnd(s, r, q)

\* the token that starts at i: its type and the index of its last character
LexAt(s, i) ==
  LET Token(c, w, d, frac, string, join, two) ==
        IF IsSpace(c) THEN [tt |-> "Whitespace", e |-> i]
        ELSE IF c = "*" THEN [tt |-> "Wildcard", e |-> i]
        ELSE IF c = "'" /\ string > 0 THEN [tt |-> "Single", e |-> string]
        ELSE IF c = "\"" /\ string > 0 THEN [tt |-> "Symbol", e |-> string]
        ELSE IF IsWord(c) /\ ~IsDigit(c) /\ Upper(SubSeq(s, i, w)) \in EarlyKeywords
          THEN [tt |-> "Keyword", e |-> w]
        \* [A-Z]\w*(?=\s*\.)   (?<=\.)[A-Z]\w*   [A-Z]\w*(?=\()
        ELSE IF IsWord(c) /\ ~IsDigit(c) /\ c # "_"
                /\ (Ch(s, SpaceRunEnd(s, w + 1) + 1) = "." \/ Ch(s, i - 1) = "."
                    \/ Ch(s, w + 1) = "(")
          THEN [tt |-> "Name", e |-> w]
        \* \d+(\.\d*)   \d+
        ELSE IF IsDigit(c) /\ w = d /\ Ch(s, d + 1) = "." /\ WordRunEnd(s, d + 2) = frac
          THEN [tt |-> "Float", e |-> IF frac > d THEN frac ELSE d + 1]
        ELSE IF IsDigit(c) /\ w = d THEN [tt |-> "Integer", e |-> d]
        \* \.\d+
        ELSE IF c = "." /\ IsDigit(Ch(s, i + 1)) /\ WordRunEnd(s, i + 1) = DigitRunEnd(s, i + 1)
          THEN [tt |-> "Float", e |-> DigitRunEnd(s, i + 1)]
        ELSE IF IsWord(c) /\ join > 0 THEN [tt |-> "Keyword", e |-> join]
        ELSE IF IsWord(c) /\ two > 0 THEN [tt |-> "Keyword", e |-> two]
        ELSE IF IsWord(c) THEN [tt |-> is_keyword(SubSeq(s, i, w)), e |-> w]
        ELSE IF c \in {"(", ")", ",", ".", ";", ":"} THEN [tt |-> "Punctuation", e |-> i]
        ELSE IF c \in {"<", ">", "=", "!"}
          THEN [tt |-> "Comparison", e |-> FirstNotIn(s, {"<", ">", "=", "!"}, i, Len(s) + 1) - 1]
        ELSE [tt |-> "Error", e |-> i]
  IN  Token(Ch(s, i), WordRunEnd(s, i), DigitRunEnd(s, i),
            DigitRunEnd(s, DigitRunEnd(s, i) + 2), StringEnd(s, i, Ch(s, i)),
            JoinEnd(s, i), TwoWordEnd(s, i))

\* the tokens of the text, in order
Lex(s) ==
  LET Tokens(tok, st) ==
        After(st, Tuple([k \in 1..Len(st) |->
                           Leaf(tok[st[k]].tt, SubSeq(s, st[k], tok[st[k]].e))]))
      Scanned(tok) ==
        After(tok, Tokens(tok, Sorted(Stops(Tuple([i \in 1..Len(tok) |-> tok[i].e])))))
  IN  Scanned(Tuple([i \in 1..Len(s) |-> LexAt(s, i)]))

----------------------------------------------------------------------------
(* sqlparse.parse: the grouping passes (sqlparse.engine.grouping), in the  *)
(* order sqlparse applies them: parenthesis, where, identifier, order,     *)
(* comparison, as, aliased, identifier_list.  Each pass scans a token list *)
(* from left to right; End gives the last token of the group that starts   *)
(* at a token (the token itself: no group) and Make builds the group.      *)

Regroup(End(_, _), Make(_, _, _), toks) ==
  LET Made(en, st) == After(st, Tuple([k \in 1..Len(st) |-> Make(toks, st[k], en[st[k]])]))
      Scanned(en) == After(en, Made(en, Sorted(Stops(en))))
  IN  Scanned(Tuple([i \in 1..Len(toks) |-> End(toks, i)]))

\* str() of the tokens lo..hi
RECURSIVE TextOf(_, _, _)
TextOf(toks, lo, hi) ==
  IF lo > hi THEN ""
  ELSE IF lo = hi THEN toks[lo].v
  ELSE TextOf(toks, lo, (lo + hi) \div 2) \o TextOf(toks, (lo + hi) \div 2 + 1, hi)

IsPunct(t, v) == t.tt = "Punctuation" /\ t.v = v
IsWs(t) == t.tt = "Whitespace"
\* Token.match(T.Keyword, values)
IsKeywordIn(t, values) == t.tt = "Keyword" /\ Upper(t.v) \in values
\* TokenList.token_next(idx): the next token that is not whitespace (0: none)
NextIdx(toks, i) ==
  IF i = 0 THEN 0 ELSE Least({j \in (i + 1)..Len(toks) : ~IsWs(toks[j])})

\* group_parenthesis (_group_matching): a ")" closes the last "(" that is open, so the
\* pairs with no parenthesis between them are grouped first.  The index of the ")" that
\* closes the "(" at i, if no parenthesis is between the two.
ParenEnd(toks, i) ==
  LET Closed(j) == IF j > 0 /\ IsPunct(toks[j], ")") THEN j ELSE i
  IN  IF IsPunct(toks[i], "(")
        THEN Closed(Least({j \in (i + 1)..Len(toks) :
                             IsPunct(toks[j], "(") \/ IsPunct(toks[j], ")")}))
        ELSE i

\* group_where: Where.M_CLOSE
WhereClose == {"ORDER BY", "GROUP BY", "LIMIT", "UNION", "UNION ALL", "EXCEPT", "HAVING",
               "RETURNING", "INTO"}
WhereEnd(toks, i) ==
  LET Closed(c) == IF c = 0 THEN Len(toks) ELSE c - 1
  IN  IF ~IsKeywordIn(toks[i], {"WHERE"}) THEN i
      ELSE Closed(Least({j \in (i + 1)..Len(toks) : IsKeywordIn(toks[j], WhereClose)}))

\* group_period, group_identifier: a name, or names joined by periods
RECURSIVE IdentEnd(_, _)
IdentEnd(toks, i) ==
  IF i + 2 <= Len(toks) /\ IsPunct(toks[i + 1], ".")
     /\ toks[i + 2].tt \in {"Name", "Symbol", "Wildcard"}
    THEN IdentEnd(toks, i + 2) ELSE i
IdentifierEnd(toks, i) == IF toks[i].tt \in {"Name", "Symbol"} THEN IdentEnd(toks, i) ELSE i
MakeIdentifier(toks, i, e) ==
  IF toks[i].tt \in {"Name", "Symbol"}
    THEN Grp("Identifier", SubSeq(toks, i, e), TextOf(toks, i, e)) ELSE toks[i]

\* group_order: an identifier or a number and the ASC or DESC after it
OrderEnd(toks, i) ==
  LET Ordered(j) ==
        IF (toks[i].cls = "Identifier" \/ toks[i].tt \in {"Integer", "Float"})
           /\ j > 0 /\ toks[j].tt = "Order" THEN j ELSE i
  IN  Ordered(NextIdx(toks, i))
MakeGroup(cls, toks, i, e) ==
  IF e = i THEN toks[i] ELSE Grp(cls, SubSeq(toks, i, e), TextOf(toks, i, e))
MakeOrdered(toks, i, e) == MakeGroup("Identifier", toks, i, e)

\* group_comparison: operand, comparison operator, operand
Operand(t) == t.cls \in {"Parenthesis", "Identifier"}
              \/ t.tt \in {"Integer", "Float", "Single", "Symbol", "Name"}
ComparisonEnd(toks, i) ==
  LET Compared(j, k) ==
        IF Operand(toks[i]) /\ j > 0 /\ toks[j].tt = "Comparison" /\ k > 0
           /\ (Operand(toks[k]) \/ IsKeywordIn(toks[k], {"NULL"})) THEN k ELSE i
      Operator(j) == Compared(j, NextIdx(toks, j))
  IN  Operator(NextIdx(toks, i))
MakeComparison(toks, i, e) == MakeGroup("Comparison", toks, i, e)

\* group_as: a token that is no keyword, AS, and the token after it
AsEnd(toks, i) ==
  LET Named(j, k) ==
        IF toks[i].tt \notin {"Keyword", "DML", "Order", "Whitespace", "Punctuation"}
           /\ j > 0 /\ IsKeywordIn(toks[j], {"AS"}) /\ k > 0 /\ toks[k].tt # "DML"
          THEN k ELSE i
      As(j) == Named(j, NextIdx(toks, j))
  IN  As(NextIdx(toks, i))

\* group_aliased: a parenthesis, identifier, comparison or number and the identifier
\* after it; an identifier is extended by its alias (extend=True)
AliasedEnd(toks, i) ==
  LET Aliased(j) ==
        IF (toks[i].cls \in {"Parenthesis", "Identifier", "Comparison"}
            \/ toks[i].tt \in {"Integer", "Float"})
           /\ j > 0 /\ toks[j].cls = "Identifier" THEN j ELSE i
  IN  Aliased(NextIdx(toks, i))
MakeExtended(toks, i, e) ==
  IF e = i THEN toks[i]
  ELSE IF toks[i].cls = "Identifier"
    THEN Grp("Identifier", toks[i].sub \o SubSeq(toks, i + 1, e), TextOf(toks, i, e))
  ELSE Grp("Identifier", SubSeq(toks, i, e), TextOf(toks, i, e))

MakeAs(toks, i, e) == MakeExtended(toks, i, e)
MakeAliased(toks, i, e) == MakeExtended(toks, i, e)

\* group_identifier_list: items joined by commas.  A builtin name (Name.Builtin) or a
\* direction keyword (Keyword.Order) is no item: sqlparse looks the token type up in a
\* tuple of types, by equality.
ListItem(t) == t.cls \in {"Identifier", "Comparison", "IdentifierList"}
               \/ t.tt \in {"Integer", "Float", "Single", "Symbol", "Name", "Keyword", "Wildcard"}
RECURSIVE ListEnd(_, _)
ListEnd(toks, i) ==
  LET Listed(j, k) ==
        IF j > 0 /\ IsPunct(toks[j], ",") /\ k > 0 /\ ListItem(toks[k])
          THEN ListEnd(toks, k) ELSE i
      Comma(j) == Listed(j, NextIdx(toks, j))
  IN  Comma(NextIdx(toks, i))
IdentifierListEnd(toks, i) == IF ListItem(toks[i]) THEN ListEnd(toks, i) ELSE i
MakeIdentifierList(toks, i, e) == MakeGroup("IdentifierList", toks, i, e)

\* the passes that follow group_where, on one token list
GroupNames(toks) ==
  LET Lists(ts) == After(ts, Regroup(IdentifierListEnd, MakeIdentifierList, ts))
      Aliases(ts) == After(ts, Lists(Regroup(AliasedEnd, MakeAliased, ts)))
      Names(ts) == After(ts, Aliases(Regroup(AsEnd, MakeAs, ts)))
      Comparisons(ts) == After(ts, Names(Regroup(ComparisonEnd, MakeComparison, ts)))
      Orders(ts) == After(ts, Comparisons(Regroup(OrderEnd, MakeOrdered, ts)))
  IN  Orders(Regroup(IdentifierEnd, MakeIdentifier, toks))

MakeWhere(toks, i, e) ==
  IF IsKeywordIn(toks[i], {"WHERE"})
    THEN Grp("Where", GroupNames(SubSeq(toks, i, e)), TextOf(toks, i, e)) ELSE toks[i]

\* group_where and the passes that follow it, on one token list
GroupClauses(toks) ==
  LET Wheres(ts) == After(ts, GroupNames(ts))
  IN  Wheres(Regroup(WhereEnd, MakeWhere, toks))

\* the tokens between two parentheses are a list of their own (sqlparse's @recurse)
MakeParenthesis(toks, i, e) ==
  IF e = i THEN toks[i]
  ELSE [cls |-> "Parenthesis", tt |-> "None", v |-> TextOf(toks, i, e),
        sub |-> <<toks[i]>> \o Append(GroupClauses(SubSeq(toks, i + 1, e - 1)), toks[e])]

\* all passes on a token list: the parentheses from the inside out, then the rest
RECURSIVE Group(_)
Group(toks) ==
  IF \E i \in 1..Len(toks) : ParenEnd(toks, i) > i
    THEN Group(Regroup(ParenEnd, MakeParenthesis, toks))
  ELSE GroupClauses(toks)

\* sqlparse.parse(sql)[0].tokens
Parse(sql) == Group(Lex(sql))

----------------------------------------------------------------------------
(* sqlparse.sql: the methods of Identifier and IdentifierList the source   *)
(* calls.  None is the string "None".                                      *)

None == "None"

\* sqlparse.utils.remove_quotes(val)
remove_quotes(val) ==
  IF Len(val) >= 2 /\ Ch(val, 1) \in {"\"", "'"} /\ Ch(val, 1) = Ch(val, Len(val))
    THEN SubSeq(val, 2, Len(val) - 1) ELSE val

\* TokenList._get_first_name(idx, reverse, keywords, real_name) on tokens[idx:] (reverse:
\* on all tokens, from the last one): the value of the first name, or the name of the
\* first identifier
RECURSIVE FirstName(_, _, _, _, _)
RECURSIVE GetAlias(_)
RECURSIVE GetRealName(_)
FirstName(toks, idx, reverse, keywords, real_name) ==
  LET Named(j) == toks[j].tt \in {"Name", "Wildcard", "Symbol"}
                  \/ (keywords /\ toks[j].tt = "Keyword")
                  \/ toks[j].cls = "Identifier"
      NameOf(t, alias) == IF real_name \/ alias = None THEN GetRealName(t) ELSE alias
      Found(j) ==
        IF j = 0 THEN None
        ELSE IF toks[j].cls # "Identifier" THEN remove_quotes(toks[j].v)
        ELSE NameOf(toks[j], GetAlias(toks[j]))
  IN  Found(IF reverse THEN Greatest({j \in 1..Len(toks) : Named(j)})
            ELSE Least({j \in idx..Len(toks) : Named(j)}))

\* TokenList.get_alias(): "name AS alias", or "name alias"
GetAlias(t) ==
  LET Alias(kw_idx) ==
        IF kw_idx > 0 THEN FirstName(t.sub, kw_idx + 1, FALSE, TRUE, FALSE)
        ELSE IF Len(t.sub) > 2 /\ (\E k \in 1..Len(t.sub) : IsWs(t.sub[k]))
          THEN FirstName(t.sub, 1, TRUE, FALSE, FALSE)
        ELSE None
  IN  Alias(Least({j \in 1..Len(t.sub) : IsKeywordIn(t.sub[j], {"AS"})}))

\* TokenList.get_real_name(): the name after the first period, if there is one
GetRealName(t) ==
  LET RealName(dot_idx) ==
        FirstName(t.sub, IF dot_idx > 0 THEN dot_idx ELSE 1, FALSE, FALSE, TRUE)
  IN  RealName(Least({j \in 1..Len(t.sub) : IsPunct(t.sub[j], ".")}))

\* IdentifierList.get_identifiers(): the tokens but whitespace and commas
GetIdentifiers(t) ==
  LET Item(x) == ~IsWs(x) /\ ~IsPunct(x, ",") IN SelectSeq(t.sub, Item)

----------------------------------------------------------------------------
(* SQLParser *)

\* extract_table_from_subquery(subquery): the loop returns at the first Identifier or
\* IdentifierList after the first keyword FROM
extract_table_from_subquery(subquery) ==
  LET Returned(token) ==
        IF token.cls = "Identifier" THEN GetRealName(token)
        \* get_identifiers() is a generator, and subscripting it raises TypeError
        ELSE "TypeError"
      Listed(j) == IF j = 0 THEN None ELSE Returned(subquery.sub[j])
      Seen(from) ==
        IF from = 0 THEN None
        ELSE Listed(Least({j \in (from + 1)..Len(subquery.sub) :
                             subquery.sub[j].cls \in {"Identifier", "IdentifierList"}}))
  IN  Seen(Least({j \in 1..Len(subquery.sub) :
                    subquery.sub[j].tt = "Keyword" /\ Upper(subquery.sub[j].v) = "FROM"}))

\* has_alias(): get_alias() is not None
process_identifier(identifier) ==
  LET Label(subquery_table, alias) ==
        "sub:" \o (IF subquery_table # None THEN subquery_table ELSE alias)
      Processed(subquery, alias) ==
        IF alias # None /\ subquery.cls = "Parenthesis"
          THEN Label(extract_table_from_subquery(subquery), alias)
        ELSE GetRealName(identifier)
  IN  Processed(identifier.sub[1], GetAlias(identifier))

\* re.search(join_pattern, sql_str, re.IGNORECASE): every part before JOIN is optional
is_join_clause(sql_str) ==
  \E i \in 1..Len(sql_str) : StartsAtI(sql_str, i, "JOIN") /\ WordBoundary(sql_str, i + 4)

\* the sequences lo..hi of a sequence of sequences, one after the other
RECURSIVE Concat(_, _, _)
Concat(seqs, lo, hi) ==
  IF lo > hi THEN <<>>
  ELSE IF lo = hi THEN seqs[lo]
  ELSE Concat(seqs, lo, (lo + hi) \div 2) \o Concat(seqs, (lo + hi) \div 2 + 1, hi)
\* list(generator): what the calls of a generator yield, call after call
Yielded(seqs) == After(seqs, Concat(seqs, 1, Len(seqs)))

\* extract_tables(parsed, keyword, is_join).  The loop over parsed.tokens sets
\* keyword_seen at the first keyword that is the keyword asked for (or, with is_join, a
\* join clause); from then on it yields the tables of every Identifier and
\* IdentifierList, and returns at the first keyword that is neither ON nor (with
\* is_join) a join clause.
extract_tables(parsed, keyword, is_join) ==
  LET Joins(t) == is_join /\ is_join_clause(Upper(t.v))
      Listed(t) == t.cls \in {"Identifier", "IdentifierList"}
      Tables(item) ==
        IF item.cls = "Identifier" THEN <<process_identifier(item)>>
        ELSE Map(process_identifier, GetIdentifiers(item))
      Items(seen, return) ==
        IF seen = 0 THEN <<>>
        ELSE SelectSeq(SubSeq(parsed, seen + 1, IF return = 0 THEN Len(parsed) ELSE return - 1),
                       Listed)
      Seen(seen) ==
        Yielded(Map(Tables,
                    Items(seen,
                          IF seen = 0 THEN 0
                          ELSE Least({j \in (seen + 1)..Len(parsed) :
                                        parsed[j].tt = "Keyword"
                                        /\ ~(Joins(parsed[j]) \/ Upper(parsed[j].v) = "ON")}))))
  IN  Seen(Least({j \in 1..Len(parsed) :
                    parsed[j].tt = "Keyword"
                    /\ (Joins(parsed[j]) \/ Upper(parsed[j].v) = keyword)}))

\* extract_conditions, were it to look for WHERE in the text of the statement, inside
\* its parentheses too
extract_conditions_in_text(parsed) ==
  LET Conditions(s, w) ==
        IF w > 0 THEN abstract_conditions(Strip(SubSeq(s, w + 5, Len(s)), " ")) ELSE ""
      Text(s) == Conditions(s, Least({j \in 1..Len(s) : StartsAtI(s, j, "WHERE")}))
  IN  Text(TextOf(parsed, 1, Len(parsed)))

\* extract_conditions(parsed, clause_type=Where)
extract_conditions(parsed) ==
  LET Kept(token) == ~IsWs(token) /\ Upper(token.v) # "WHERE"
      Text(token) == token.v
      Conditions(clause_item) ==
        IF clause_item > 0
          THEN abstract_conditions(
                 Strip(Join(" ", Map(Text, SelectSeq(parsed[clause_item].sub, Kept))), " "))
        ELSE ""
  IN  Conditions(Least({j \in 1..Len(parsed) : parsed[j].cls = "Where"}))

\* extract_subquery_info(subquery)
extract_subquery_info(subquery) ==
  LET Info(parsed_subquery) ==
        [tables |-> extract_tables(parsed_subquery, "FROM", FALSE),
         conditions |-> extract_conditions(parsed_subquery)]
  IN  Info(Parse(Strip(subquery, "()")))

\* process_subqueries.replace_subquery(match)
replace_subquery(subquery) ==
  LET Replacement(info) == "(sub:" \o Join(",", info.tables) \o "|" \o info.conditions \o ")"
  IN  Replacement(extract_subquery_info(subquery))

process_subqueries(conditions) == ReSub(MatchSubquery, replace_subquery, conditions)

\* the texts re.sub hands to replace_subquery: the matches of the pattern in conditions
SubqueryMatches(conditions) ==
  LET Texts(en, st) ==
        After(st, Tuple([k \in 1..Len(st) |-> SubSeq(conditions, st[k], en[st[k]])]))
      Matched(en) == After(en, Texts(en, MatchStarts(en)))
  IN  Matched(Tuple([i \in 1..Len(conditions) |-> MatchSubquery(conditions, i)]))

\* extract_clause(parsed, clause_name).  The loop over parsed.tokens sets clause_seen at
\* the first keyword clause_name and breaks at the first keyword after it that is not
\* clause_name; between the two it appends the text of every group (ttype None), builtin
\* name and direction keyword.
extract_clause(parsed, clause_name) ==
  LET Appended(token) == token.tt \in {"Builtin", "None", "Order"}
      Stripped(token) == Strip(token.v, " ")
      Items(seen, break) ==
        IF seen = 0 THEN <<>>
        ELSE Map(Stripped,
                 SelectSeq(SubSeq(parsed, seen + 1, IF break = 0 THEN Len(parsed) ELSE break - 1),
                           Appended))
      Seen(seen) ==
        Items(seen,
              IF seen = 0 THEN 0
              ELSE Least({j \in (seen + 1)..Len(parsed) :
                            parsed[j].tt = "Keyword"
                            /\ Upper(parsed[j].v) \notin {clause_name, "ASC", "DESC"}}))
  IN  Seen(Least({j \in 1..Len(parsed) :
                    parsed[j].tt = "Keyword" /\ Upper(parsed[j].v) = clause_name}))

\* a < b for strings, as Python compares them: by code point, a prefix first
StrLess(a, b) ==
  LET Less(d) == IF d = 0 THEN Len(a) < Len(b) ELSE OrdMap[Ch(a, d)] < OrdMap[Ch(b, d)]
  IN  Less(Least({j \in 1..(IF Len(a) < Len(b) THEN Len(a) ELSE Len(b)) : Ch(a, j) # Ch(b, j)}))

\* sorted, were it to leave the list as it is
as_listed(names) == names

\* sorted(names): every entry is kept, equal entries too
sorted(names) ==
  LET Before(i, j) == StrLess(names[i], names[j]) \/ (names[i] = names[j] /\ i < j)
      Ranked(rank) ==
        After(rank, Tuple([k \in 1..Len(names) |->
                             names[CHOOSE i \in 1..Len(names) : rank[i] = k - 1]]))
  IN  Ranked(Tuple([i \in 1..Len(names) |-> Cardinality({j \in 1..Len(names) : Before(j, i)})]))

\* parse_sql(sql)
parse_sql(sql) ==
  LET Info(parsed) ==
        [from_tables |-> extract_tables(parsed, "FROM", FALSE),
         join_tables |-> extract_tables(parsed, "JOIN", TRUE),
         where_conditions |-> process_subqueries(extract_conditions(parsed)),
         group_by |-> extract_clause(parsed, "GROUP BY"),
         order_by |-> extract_clause(parsed, "ORDER BY")]
  IN  Info(Parse(sql))

\* categorize_sql(sql)
categorize_sql(sql) ==
  LET Category(parsed_info) ==
        <<sorted(parsed_info.from_tables), sorted(parsed_info.join_tables),
          parsed_info.where_conditions, parsed_info.group_by, parsed_info.order_by>>
  IN  Category(parse_sql(sql))

----------------------------------------------------------------------------
(* TestClass *)

\* TestClass: the statements of sql_list with their signatures in expected_parser
\* (but the two statements that name a column "from")
test_checkSQL ==
  /\ categorize_sql("SELECT * FROM table1, table2")
     = << <<"table1", "table2">>, <<>>, "", <<>>, <<>> >>
  /\ categorize_sql("SELECT * FROM table1 JOIN table2 ON table1.id = table2.id WHERE table1.name = 'John' AND table2.age > 30")
     = << <<"table1">>, <<"table2">>, "table1.name = 'X' AND table2.age > 9", <<>>, <<>> >>
  /\ categorize_sql("SELECT * FROM table1 LEFT OUTER JOIN table2 ON table1.id = table2.id RIGHT OUTER JOIN table3 ON table2.id = table3.id GROUP BY group_id ORDER BY order_id")
     = << <<"table1">>, <<"table2", "table3">>, "", <<"group_id">>, <<"order_id">> >>
  /\ categorize_sql("SELECT * FROM table2 WHERE age > 30 AND status = 'active'")
     = << <<"table2">>, <<>>, "age > 9 AND status = 'X'", <<>>, <<>> >>
  /\ categorize_sql("SELECT * FROM table3 WHERE price BETWEEN 100 AND 200")
     = << <<"table3">>, <<>>, "price BETWEEN 9 AND 9", <<>>, <<>> >>
  /\ categorize_sql("SELECT * FROM table4 WHERE category IN ('A', 'B', 'C') AND status IN (0, 1, 2)")
     = << <<"table4">>, <<>>, "category IN ('X') AND status IN (9)", <<>>, <<>> >>
  /\ categorize_sql("SELECT * FROM table5 WHERE (status = 'pending' OR status = 'processing') AND priority > 5")
     = << <<"table5">>, <<>>, "(status = 'X' OR status = 'X') AND priority > 9", <<>>, <<>> >>
  /\ categorize_sql("SELECT * FROM table6 WHERE id IN (SELECT id FROM table7 WHERE value > 100)")
     = << <<"table6">>, <<>>, "id IN (sub:table7|value > 9)", <<>>, <<>> >>
  /\ categorize_sql("SELECT * FROM (SELECT id, name FROM table8 WHERE status = 'active') subquery WHERE subquery.id > 10")
     = << <<"sub:table8">>, <<>>, "subquery.id > 9", <<>>, <<>> >>
  /\ categorize_sql("SELECT * FROM orders WHERE customer_id IN (SELECT id FROM customers WHERE country = 'USA' AND age IN (10, 20, 30)) AND ACTIVE = true")
     = << <<"orders">>, <<>>, "customer_id IN (sub:customers|country = 'X' AND age IN ( 9)) AND ACTIVE = B", <<>>, <<>> >>
  /\ categorize_sql("SELECT * FROM table4 WHERE date BETWEEN '2023-01-01' AND '2023-12-31' AND category IN ('A', 'B', 'C') GROUP BY category, date ORDER BY date DESC")
     = << <<"table4">>, <<>>, "date BETWEEN 'X' AND 'X' AND category IN ('X')", <<"category", "date">>, <<"date", "DESC">> >>


----------------------------------------------------------------------------
(* The statements fed to the program.  A statement is built from its parts *)
(* and keeps them beside its text (sql), so that a property can say what a *)
(* signature should hold: from, joins, group and order are the lists of    *)
(* the clauses, where the predicates of the WHERE clause (joined by AND).  *)
(* A predicate keeps its text, its shape (the text with every literal      *)
(* replaced by the kind of the literal) and canon, the canonical text the  *)
(* properties C1, C3 and C4 ask for.  No statement has a derived table     *)
(* whose own FROM is a list: extract_table_from_subquery raises TypeError  *)
(* on it.                                                                  *)

MaxFrom == 3     \* the longest FROM list
MaxList == 3     \* the longest IN-list
MaxJoins == 2    \* the most JOINs of a statement
MaxCols == 2     \* the most items of GROUP BY and ORDER BY together
MaxDepth == 2    \* the deepest nesting of subqueries
MaxAtoms == 3    \* the most words of a condition text handed to abstract_conditions
MaxCalls == 2    \* the number of successive calls of abstract_conditions

Lists(S, n) == UNION {[1..k -> S] : k \in 0..n}

\* a table reference: a table, with or without an alias
Ref(table, alias) ==
  [table |-> table, text |-> IF alias = "" THEN table ELSE table \o " " \o alias]
\* JOIN variant, joined table and ON condition ("": none)
JoinPart(kind, ref, on) ==
  [table |-> ref.table,
   text |-> kind \o " " \o ref.text \o (IF on = "" THEN "" ELSE " ON " \o on)]
OrderPart(col, dir) ==
  [col |-> col, dir |-> dir, text |-> IF dir = "" THEN col ELSE col \o " " \o dir]

Literal(text, kind) == [text |-> text, kind |-> kind]
Numbers == {Literal("1", "number"), Literal("20", "number"), Literal("1.5", "number"),
            Literal(".5", "number")}
Strings == {Literal("'a'", "string"), Literal("'it''s'", "string"), Literal("''", "string")}
Booleans == {Literal("TRUE", "boolean"), Literal("false", "boolean")}
CanonOfLiteral(lit) ==
  IF lit.kind = "number" THEN "9" ELSE IF lit.kind = "string" THEN "'X'" ELSE "B"

\* col = literal
Cmp(col, lit) ==
  [text |-> col \o " = " \o lit.text, shape |-> col \o " = " \o lit.kind,
   canon |-> col \o " = " \o CanonOfLiteral(lit), in_list |-> FALSE, depth |-> 0]
\* col IN (literal, ...)
InList(col, items) ==
  [text |-> col \o " IN (" \o Join(", ", Map(LAMBDA x : x.text, items)) \o ")",
   shape |-> col \o " IN (" \o Join(", ", Map(LAMBDA x : x.kind, items)) \o ")",
   canon |-> col \o (IF \E k \in 1..Len(items) : items[k].kind = "string"
                       THEN " IN ('X')" ELSE " IN (9)"),
   in_list |-> TRUE, depth |-> 0]
\* (p OR q)
Either(p, q) ==
  [text |-> "(" \o p.text \o " OR " \o q.text \o ")",
   shape |-> "(" \o p.shape \o " OR " \o q.shape \o ")",
   canon |-> "(" \o p.canon \o " OR " \o q.canon \o ")",
   in_list |-> p.in_list \/ q.in_list,
   depth |-> IF p.depth > q.depth THEN p.depth ELSE q.depth]

\* the text of a statement
Render(select, from, joins, where, group, order) ==
  "SELECT " \o select \o " FROM " \o Join(", ", from)
  \o (IF joins = <<>> THEN "" ELSE " " \o Join(" ", joins))
  \o (IF where = <<>> THEN "" ELSE " WHERE " \o Join(" AND ", where))
  \o (IF group = <<>> THEN "" ELSE " GROUP BY " \o Join(", ", group))
  \o (IF order = <<>> THEN "" ELSE " ORDER BY " \o Join(", ", order))

Statement(select, from, joins, where, group, order) ==
  [from |-> Map(LAMBDA x : x.table, from),
   joins |-> Map(LAMBDA x : x.table, joins),
   where |-> Map(LAMBDA x : x.text, where),
   canon |-> Join(" AND ", Map(LAMBDA x : x.canon, where)),
   in_list |-> \E k \in 1..Len(where) : where[k].in_list,
   depth |-> Greatest({where[k].depth : k \in 1..Len(where)}),
   paren |-> \E k \in 1..Len(from) : Ch(from[k].text, 1) = "(",
   group |-> group,
   order |-> order,
   shape |-> Render(select, Map(LAMBDA x : x.text, from), Map(LAMBDA x : x.text, joins),
                    Map(LAMBDA x : x.shape, where), group, Map(LAMBDA x : x.text, order)),
   sql |-> Render(select, Map(LAMBDA x : x.text, from), Map(LAMBDA x : x.text, joins),
                  Map(LAMBDA x : x.text, where), group, Map(LAMBDA x : x.text, order))]

\* col IN (statement): canon is "(sub:T|C)", T the tables of the statement (FROM and
\* JOIN) in ascending order and C its canonical condition
Subquery(col, stmt) ==
  [text |-> col \o " IN (" \o stmt.sql \o ")",
   shape |-> col \o " IN (" \o stmt.shape \o ")",
   canon |-> col \o " IN (sub:" \o Join(",", sorted(stmt.from \o stmt.joins)) \o "|"
             \o stmt.canon \o ")",
   in_list |-> stmt.in_list, depth |-> stmt.depth + 1]
\* (statement) alias, in a FROM list
Derived(stmt, alias) == [table |-> "sub:" \o stmt.from[1], text |-> "(" \o stmt.sql \o ") " \o alias]


\* FROM lists that are permutations of each other
Refs == {Ref("a", ""), Ref("ab", "x"), Ref("B", "")}
FromLists == Lists(Refs, MaxFrom) \ {<<>>}
Swapped(l) == IF Len(l) < 2 THEN l ELSE <<l[2], l[1]>> \o SubSeq(l, 3, Len(l))
Rotated(l) == Tail(l) \o <<Head(l)>>
FromStatement(l) == Statement("*", l, <<>>, <<>>, <<>>, <<>>)
FromPairs ==
  UNION {{<<FromStatement(l), FromStatement(Swapped(l))>>,
          <<FromStatement(l), FromStatement(Rotated(l))>>} : l \in FromLists}

\* statements that differ in a literal of the WHERE clause
LiteralStatement(lit) == Statement("*", <<Ref("t", "")>>, <<>>, <<Cmp("n", lit)>>, <<>>, <<>>)
LiteralPairs ==
  {<<LiteralStatement(l), LiteralStatement(m)>> :
     <<l, m>> \in (Numbers \X Numbers) \cup (Strings \X Strings) \cup (Booleans \X Booleans)}

\* IN-lists, in the WHERE clause of the statement and of a subquery
InLists == Lists({Literal("1", "number"), Literal("'a'", "string")}, MaxList) \ {<<>>}
InStatements ==
  UNION {{Statement("*", <<Ref("t", "")>>, <<>>, <<InList("c", l)>>, <<>>, <<>>),
          Statement("*", <<Ref("t", "")>>, <<>>,
                    <<Subquery("a", Statement("x", <<Ref("u", "")>>, <<>>,
                                              <<InList("c", l)>>, <<>>, <<>>))>>,
                    <<>>, <<>>)} : l \in InLists}

\* subqueries in the WHERE clause: the FROM list, the JOIN and the condition of the
\* subquery vary, and subqueries nest
SubFroms == {<<Ref("u", "")>>, <<Ref("v", ""), Ref("u", "")>>}
SubJoins == {<<>>, <<JoinPart("JOIN", Ref("j", ""), "u.i = j.i")>>}
SubWheres == {<<Cmp("y", Literal("1", "number"))>>, <<Either(Cmp("d", Literal("1", "number")), Cmp("e", Literal("'a'", "string")))>>}
RECURSIVE Nested(_)
Nested(depth) ==
  IF depth = 0 THEN Statement("x", <<Ref("v", "")>>, <<>>, <<Cmp("e", Literal("1", "number"))>>, <<>>, <<>>)
  ELSE Statement("x", <<Ref("u", "")>>, <<>>, <<Subquery("c", Nested(depth - 1))>>, <<>>, <<>>)
SubStatements ==
  {Statement("*", <<Ref("t", "")>>, <<>>, <<Subquery("a", Statement("x", f, j, w, <<>>, <<>>))>>, <<>>, <<>>) :
     f \in SubFroms, j \in SubJoins, w \in SubWheres}
  \cup {Statement("*", <<Ref("t", "")>>, <<>>, <<Subquery("a", Nested(d - 1))>>, <<>>, <<>>) :
          d \in 2..MaxDepth}

\* chains of JOINs: the k-th JOIN joins the k-th table, in one of these forms
JoinTables == <<"b", "c", "d", "e">>
JoinForms == {"JOIN", "LEFT OUTER JOIN .. AND", "CROSS JOIN", "INNER JOIN .. OR"}
JoinOf(form, table) ==
  LET on == "a.id = " \o table \o ".id"
  IN  IF form = "JOIN" THEN JoinPart("JOIN", Ref(table, ""), on)
      ELSE IF form = "LEFT OUTER JOIN .. AND"
        THEN JoinPart("LEFT OUTER JOIN", Ref(table, ""), on \o " AND a.x = " \o table \o ".x")
      ELSE IF form = "CROSS JOIN" THEN JoinPart("CROSS JOIN", Ref(table, ""), "")
      ELSE JoinPart("INNER JOIN", Ref(table, "y"), on \o " OR a.x = " \o table \o ".x")
JoinStatements ==
  {Statement("*", <<Ref("a", "")>>, Tuple([k \in 1..Len(forms) |-> JoinOf(forms[k], JoinTables[k])]),
             <<>>, <<>>, <<>>) : forms \in Lists(JoinForms, MaxJoins) \ {<<>>}}

\* GROUP BY and ORDER BY lists
Cols == {"a", "b", "date"}
OrderParts == {OrderPart("a", ""), OrderPart("b", "DESC"), OrderPart("date", "DESC")}
ClauseStatements ==
  {Statement("*", <<Ref("t", "")>>, <<>>, <<>>, g, o) :
     <<g, o>> \in {c \in Lists(Cols, MaxCols) \X Lists(OrderParts, MaxCols) :
                     Len(c[1]) + Len(c[2]) <= MaxCols}}

\* clauses at the top level and inside a derived table
Clauses == {[where |-> w, group |-> g, order |-> o] :
              w \in {<<>>, <<Cmp("b", Literal("1", "number"))>>}, g \in {<<>>, <<"a">>},
              o \in {<<>>, <<OrderPart("a", "")>>}}
BoundaryStatements ==
  {Statement("*",
             <<Derived(Statement("a", <<Ref("u", "")>>, <<>>, i.where, i.group, i.order), "s")>>,
             <<>>, c.where, c.group, c.order) :
     i \in Clauses \ {[where |-> <<>>, group |-> <<>>, order |-> <<>>]}, c \in Clauses}

\* what standard input holds: one statement, or two statements
Corpus ==
  FromPairs \cup LiteralPairs
  \cup {<<s>> : s \in InStatements \cup SubStatements \cup JoinStatements
                      \cup ClauseStatements \cup BoundaryStatements}

\* the condition texts handed to abstract_conditions directly
Atoms == {"a", "=", "1", "1.5", "1.2.3", "'it''s'", "IN (1, 2)", "TRUE"}
ConditionTexts == {Join(" ", ws) : ws \in Lists(Atoms, MaxAtoms)}

----------------------------------------------------------------------------
(* main() *)

SqlOf(stmt) == stmt.sql

Init ==
  /\ input \in Corpus
  /\ stdin = Map(SqlOf, input)
  /\ line = ""
  /\ pc = "main"
  /\ tokens = <<>>
  /\ from_tables = <<>>
  /\ join_tables = <<>>
  /\ where_conditions = ""
  /\ subqueries = <<>>
  /\ group_by = <<>>
  /\ order_by = <<>>
  /\ out = <<>>
  /\ condition_text = ""
  /\ abstracted = <<>>

\* for line in sys.stdin: line = line.strip(); if line: ...
ReadLine ==
  /\ pc = "main"
  /\ stdin # <<>>
  /\ line' = Strip(Head(stdin), " ")
  /\ stdin' = Tail(stdin)
  /\ pc' = IF line' # "" THEN "parse_sql" ELSE "main"
  /\ UNCHANGED <<input, tokens, from_tables, join_tables, where_conditions, subqueries,
                 group_by, order_by, out, condition_text, abstracted>>

\* parsed = sqlparse.parse(sql)[0]
SqlParse ==
  /\ pc = "parse_sql"
  /\ tokens' = Parse(line)
  /\ pc' = "from_tables"
  /\ UNCHANGED <<input, stdin, line, from_tables, join_tables, where_conditions, subqueries,
                 group_by, order_by, out, condition_text, abstracted>>

\* from_tables = list(SQLParser.extract_tables(parsed, 'FROM'))
ExtractFromTables ==
  /\ pc = "from_tables"
  /\ from_tables' = extract_tables(tokens, "FROM", FALSE)
  /\ pc' = "join_tables"
  /\ UNCHANGED <<input, stdin, line, tokens, join_tables, where_conditions, subqueries,
                 group_by, order_by, out, condition_text, abstracted>>

\* join_tables = list(SQLParser.extract_tables(parsed, 'JOIN', True))
ExtractJoinTables ==
  /\ pc = "join_tables"
  /\ join_tables' = extract_tables(tokens, "JOIN", TRUE)
  /\ pc' = "where_conditions"
  /\ UNCHANGED <<input, stdin, line, tokens, from_tables, where_conditions, subqueries,
                 group_by, order_by, out, condition_text, abstracted>>

\* where_conditions = SQLParser.extract_conditions(parsed)
ExtractConditions ==
  /\ pc = "where_conditions"
  /\ where_conditions' = extract_conditions(tokens)
  /\ pc' = "process_subqueries"
  /\ UNCHANGED <<input, stdin, line, tokens, from_tables, join_tables, subqueries,
                 group_by, order_by, out, condition_text, abstracted>>

\* where_conditions = SQLParser.process_subqueries(where_conditions)
ProcessSubqueries ==
  /\ pc = "process_subqueries"
  /\ subqueries' = SubqueryMatches(where_conditions)
  /\ where_conditions' = process_subqueries(where_conditions)
  /\ pc' = "group_by"
  /\ UNCHANGED <<input, stdin, line, tokens, from_tables, join_tables,
                 group_by, order_by, out, condition_text, abstracted>>

\* group_by = SQLParser.extract_clause(parsed, 'GROUP BY')
ExtractGroupBy ==
  /\ pc = "group_by"
  /\ group_by' = extract_clause(tokens, "GROUP BY")
  /\ pc' = "order_by"
  /\ UNCHANGED <<input, stdin, line, tokens, from_tables, join_tables, where_conditions,
                 subqueries, order_by, out, condition_text, abstracted>>

\* order_by = SQLParser.extract_clause(parsed, 'ORDER BY')
ExtractOrderBy ==
  /\ pc = "order_by"
  /\ order_by' = extract_clause(tokens, "ORDER BY")
  /\ pc' = "categorize_sql"
  /\ UNCHANGED <<input, stdin, line, tokens, from_tables, join_tables, where_conditions,
                 subqueries, group_by, out, condition_text, abstracted>>

\* parse_sql returns; categorize_sql sorts the tables and main() prints the signature
CategorizeSql ==
  /\ pc = "categorize_sql"
  /\ out' = Append(out, <<sorted(from_tables), sorted(join_tables), where_conditions,
                          group_by, order_by>>)
  /\ pc' = "main"
  /\ UNCHANGED <<input, stdin, line, tokens, from_tables, join_tables, where_conditions,
                 subqueries, group_by, order_by, condition_text, abstracted>>

Next ==
  \/ ReadLine
  \/ SqlParse
  \/ ExtractFromTables
  \/ ExtractJoinTables
  \/ ExtractConditions
  \/ ProcessSubqueries
  \/ ExtractGroupBy
  \/ ExtractOrderBy
  \/ CategorizeSql

Spec == Init /\ [][Next]_vars

----------------------------------------------------------------------------
(* abstract_conditions called on a condition text, and again on its result *)

InitAbstract ==
  /\ condition_text \in ConditionTexts
  /\ abstracted = <<>>
  /\ input = <<>>
  /\ stdin = <<>>
  /\ line = ""
  /\ pc = "abstract_conditions"
  /\ tokens = <<>>
  /\ from_tables = <<>>
  /\ join_tables = <<>>
  /\ where_conditions = ""
  /\ subqueries = <<>>
  /\ group_by = <<>>
  /\ order_by = <<>>
  /\ out = <<>>

AbstractConditions ==
  /\ pc = "abstract_conditions"
  /\ Len(abstracted) < MaxCalls
  /\ abstracted' = Append(abstracted,
                          abstract_conditions(IF abstracted = <<>> THEN condition_text
                                              ELSE abstracted[Len(abstracted)]))
  /\ UNCHANGED <<input, stdin, line, pc, tokens, from_tables, join_tables, where_conditions,
                 subqueries, group_by, order_by, out, condition_text>>

NextAbstract == AbstractConditions

SpecAbstract == InitAbstract /\ [][NextAbstract]_vars

----------------------------------------------------------------------------
(* Properties *)

\* parse_sql has returned on a statement, and main() has printed its signature
Returned == pc = "main" /\ out # <<>>
\* the statement it has returned on
Current == input[Len(out)]
\* main() has read every line
Done == pc = "main" /\ stdin = <<>>

\* the same entries, each as many times
SameBag(s, t) ==
  /\ Len(s) = Len(t)
  /\ \A x \in {s[k] : k \in 1..Len(s)} :
       Cardinality({k \in 1..Len(s) : s[k] = x}) = Cardinality({k \in 1..Len(t) : t[k] = x})
\* code points: "B" < "a", and "a" < "ab" (a prefix comes first)
Rank == [x \in {"B", "a", "ab"} |-> IF x = "B" THEN 1 ELSE IF x = "a" THEN 2 ELSE 3]
Ascending(s) == \A k \in 1..(Len(s) - 1) : Rank[s[k]] <= Rank[s[k + 1]]

\* the opening parenthesis of the text is closed by its last character, and not before
Count(s, c, n) == Cardinality({k \in 1..n : Ch(s, k) = c})
Balanced(s) == Count(s, "(", Len(s)) = Count(s, ")", Len(s))
WholeGroup(s) ==
  /\ Ch(s, 1) = "(" /\ Ch(s, Len(s)) = ")"
  /\ Balanced(s)
  /\ \A n \in 1..(Len(s) - 1) : Count(s, "(", n) > Count(s, ")", n)

\* the items ORDER BY should yield: each column, and its direction after it
OrderItems(order) ==
  LET Items(part) == IF part.dir = "" THEN <<part.col>> ELSE <<part.col, part.dir>>
  IN  Yielded(Map(Items, order))

\* C1 (literal-invariance): two statements that are identical except for the values of
\* the literals of their WHERE clause get the same where_conditions.
C1_LiteralInvariance ==
  (Done /\ Len(out) = 2 /\ input[1].shape = input[2].shape) => out[1][3] = out[2][3]

\* C2 (idempotence): abstract_conditions(abstract_conditions(x)) = abstract_conditions(x)
\* for every condition text x.
C2_Idempotence ==
  Len(abstracted) >= 2 => abstracted[2] = abstracted[1]

\* C3 (IN-list collapse): in where_conditions every IN-list without a SELECT is exactly
\* IN ('X') when it holds a quoted literal and exactly IN (9) otherwise, however long the
\* list is, also when the list is in the condition of a subquery.
C3_InListCollapse ==
  (Returned /\ Current.in_list) => where_conditions = Current.canon

\* C4 (subquery splice): a subquery of the WHERE clause is replaced by (sub:T|C), T the
\* FROM and JOIN tables of the subquery, sorted and joined by commas, and C the canonical
\* condition of the subquery.
C4_SubquerySplice ==
  (Returned /\ Current.depth = 1 /\ ~Current.in_list) => where_conditions = Current.canon

\* C5 (order-invariance of FROM): two statements whose FROM lists are permutations of
\* each other get the same from_tables, which is in ascending order and keeps every
\* repeated reference as a repeated entry.
C5_FromOrderInvariance ==
  (Done /\ Len(out) = 2 /\ SameBag(input[1].from, input[2].from))
    => /\ out[1][1] = out[2][1]
       /\ Ascending(out[1][1])
       /\ SameBag(out[1][1], input[1].from)

\* C5, reached: a FROM list with a repeated reference and its permutation, another list
C5_Witness ==
  /\ Done /\ Len(out) = 2
  /\ input[1].from # input[2].from
  /\ SameBag(input[1].from, input[2].from)
  /\ \E j, k \in 1..Len(out[2][1]) : j < k /\ out[2][1][j] = out[2][1][k]
  /\ out[1][1] # input[1].from

\* C6 (JOIN chain): extract_tables(parsed, 'JOIN', True) yields the joined table of every
\* JOIN of the statement, in statement order, whatever the ON condition of a JOIN is, and not the
\* table of the FROM clause.
C6_JoinChain ==
  Returned => join_tables = Current.joins

\* C7 (GROUP BY / ORDER BY): extract_clause yields every column of the clause as an item
\* of its own, in clause order, and for ORDER BY every direction as an item after its
\* column.
C7_ClauseItems ==
  Returned => (group_by = Current.group /\ order_by = OrderItems(Current.order))

\* C8 (boundary): a statement without a WHERE clause at its top level gets
\* where_conditions = "", one without GROUP BY (ORDER BY) an empty group_by (order_by),
\* also when the clause occurs inside a parenthesized subquery.
C8_Boundary ==
  Returned => /\ (Current.where = <<>> => where_conditions = "")
              /\ (Current.group = <<>> => group_by = <<>>)
              /\ (Current.order = <<>> => order_by = <<>>)

\* C8, reached: a statement with no clause at its top level whose derived table has a
\* WHERE, a GROUP BY and an ORDER BY clause
C8_Witness ==
  /\ Returned
  /\ Current.where = <<>> /\ Current.group = <<>> /\ Current.order = <<>>
  /\ Current.paren
  /\ Contains(line, "WHERE") /\ Contains(line, "GROUP BY") /\ Contains(line, "ORDER BY")
  /\ where_conditions = "" /\ group_by = <<>> /\ order_by = <<>>

\* C9 (bounded recursion): a statement whose subqueries nest deeper than the bound fails
\* with RecursionLimitExceeded; no statement gets a corrupted signature.  The program has
\* no such error: parse_sql returns on every statement, so every signature it returns has
\* to be sound, with every subquery replaced by its (sub:T|C) form.
C9_BoundedRecursion ==
  Returned => ~Contains(Upper(where_conditions), "SELECT")

\* C10 (balanced subquery span): the span process_subqueries replaces runs from the
\* opening parenthesis of the subquery to the parenthesis that closes it, also when the
\* condition of the subquery has parentheses of its own, and where_conditions keeps its
\* parentheses balanced.
C10_BalancedSpan ==
  Returned => /\ \A k \in 1..Len(subqueries) : WholeGroup(subqueries[k])
              /\ Balanced(where_conditions)
              /\ (Current.depth = 1 => where_conditions = Current.canon)

====
